---- MODULE Spec2Model ----
(***************************************************************************)
(* A model of flue-frontend (pkg/server/server.go).                        *)
(*                                                                         *)
(* Two state machines are described:                                       *)
(*   Spec     the request handler Server.generate, one request at a time, *)
(*            step by step (each parse, the payload, json.Marshal, the     *)
(*            outbound http.Post, io.ReadAll, json.Unmarshal, c.Render,    *)
(*            the deferred Body.Close and the return into Echo);           *)
(*   RunSpec  the life cycle of Server.Run (listener goroutine, context,  *)
(*            graceful shutdown), FairRunSpec adding the scheduling        *)
(*            fairness of the Go runtime.                                  *)
(*                                                                         *)
(* Form values are byte strings, modelled as sequences of one-character    *)
(* strings, so that strconv.Atoi and strconv.ParseFloat are computed from  *)
(* the characters as the library computes them.                            *)
(***************************************************************************)
EXTENDS Integers, Sequences, FiniteSets, TLC

VARIABLES
    Backend,        \* Server.Backend, set by New from the --backend flag
    pc,             \* position of the handler goroutine in generate
    form,           \* the form values read by c.FormValue (lines 97-102)
    width,          \* local width
    height,         \* local height
    numSteps,       \* local numSteps
    guidanceScale,  \* local guidanceScale (a float64)
    parsed,         \* fields examined so far, in the order examined
    payload,        \* local payload (map[string]any)
    jsonData,       \* local jsonData, the bytes json.Marshal produced
    calls,          \* outbound http.Post calls issued for this request
    resp,           \* what http.Post returned (the backend's answer)
    bodyState,      \* resp.Body: "none", "open" or "closed"
    result,         \* local result (the decoded backend JSON)
    status,         \* committed status of the echo.Response (0: none)
    writes,         \* every status/body write made on the echo.Response
    deferred,       \* the deferred calls generate has registered
    retErr,         \* the error generate returned to Echo
    runPc,          \* position of Server.Run
    listener,       \* position of the goroutine running Echo.Start
    ctxDone,        \* the context passed to Run is cancelled
    inflight,       \* requests being served when shutdown begins
    elapsed,        \* seconds since Echo.Shutdown was called
    runErr          \* the error Run returned

handlerVars ==
    <<pc, form, width, height, numSteps, guidanceScale, parsed, payload,
      jsonData, calls, resp, bodyState, result, status, writes, deferred,
      retErr>>

runVars == <<runPc, listener, ctxDone, inflight, elapsed, runErr>>

vars == <<Backend, handlerVars, runVars>>

----------------------------------------------------------------------------
(* Program constants.                                                      *)

MinDim == 64
MaxDim == 1024
MinSteps == 1
MaxSteps == 10
MinGuidance == 0
MaxGuidance == 10

\* math.MinInt / math.MaxInt are -2^63 and 2^63-1; the model checker's
\* integers are 32 bits wide, and every seed of SeedInputs lies far inside
\* both ranges, so the narrower pair decides the same way.
MinInt == -2147483647
MaxInt == 2147483647

StatusOK == 200
StatusBadRequest == 400
StatusInternalServerError == 500

GracePeriod == 10

\* The URL written into generate's http.Post call.
PostURL == <<"http://localhost:8000", "/v1/images/generations">>

----------------------------------------------------------------------------
(* Bounds of the model.                                                    *)

MaxInflight == 2

----------------------------------------------------------------------------
(* Inputs.                                                                 *)

\* Values of the --backend flag (main.go CLI.Backend; the first is its default).
Backends == {"http://localhost:8000", "http://gpu-box:9000"}

\* "xFF" is a byte that is not valid UTF-8 (a form can carry %FF).
InvalidBytes == {"xFF"}

PromptInputs == { <<>>, <<"c", "a", "t">>, <<"c", "a", "t", "xFF">> }

WidthInputs == { <<>>, <<"6", "4">>, <<"6", "3">>, <<"1", "0", "2", "4">> }

HeightInputs ==
    { <<"+", "6", "4">>, <<"1", "0", "2", "4">>, <<"1", "0", "2", "5">>, <<"-">> }

NumStepsInputs == { <<"1">>, <<"1", "0">>, <<"0">>, <<"1", "1">> }

GuidanceInputs ==
    { <<"0", ".", "0">>, <<"1", "0", ".", "0">>, <<"7", ".", "5">>,
      <<"1", "0", ".", "1">>, <<"-", "0", ".", "1">>, <<"N", "a", "N">>,
      <<"I", "n", "f">>, <<"x">> }

SeedInputs == { <<>>, <<"4", "2">>, <<"-", "7">>, <<"a", "b">> }

Forms ==
    [prompt : PromptInputs, width : WidthInputs, height : HeightInputs,
     num_steps : NumStepsInputs, guidance_scale : GuidanceInputs,
     seed : SeedInputs]

\* What the backend can do with the one call: the transport fails, or it
\* answers with a status, a body that can or cannot be read to the end, and
\* a body text.
BodyTexts == {"json_image", "json_no_image", "not_json"}

BackendAnswers ==
    {[err |-> TRUE, code |-> 0, readable |-> FALSE, text |-> "none"]}
    \cup [err : {FALSE}, code : {200, 503}, readable : BOOLEAN, text : BodyTexts]

----------------------------------------------------------------------------
(* strconv.                                                                *)

Digits == <<"0", "1", "2", "3", "4", "5", "6", "7", "8", "9">>

IsDigit(c) == \E i \in 1..10 : Digits[i] = c

DigitVal(c) == (CHOOSE i \in 1..10 : Digits[i] = c) - 1

AllDigits(s) == \A i \in 1..Len(s) : IsDigit(s[i])

RECURSIVE DecVal(_)
DecVal(s) ==
    IF s = <<>> THEN 0
    ELSE 10 * DecVal(SubSeq(s, 1, Len(s) - 1)) + DigitVal(s[Len(s)])

HasSign(s) == Len(s) > 0 /\ s[1] \in {"+", "-"}

Unsigned(s) == IF HasSign(s) THEN Tail(s) ELSE s

\* strconv.Atoi: an optional sign, then one or more decimal digits.
Atoi(s) ==
    LET u == Unsigned(s) IN
    IF u = <<>> \/ ~AllDigits(u)
    THEN [ok |-> FALSE, val |-> 0]
    ELSE [ok |-> TRUE,
          val |-> IF s[1] = "-" THEN 0 - DecVal(u) ELSE DecVal(u)]

\* float64 values: a finite number n/d, NaN, or an infinity of sign n.
Num(n, d) == [kind |-> "num", n |-> n, d |-> d]
NaN == [kind |-> "nan", n |-> 0, d |-> 1]
Inf(sign) == [kind |-> "inf", n |-> sign, d |-> 1]

\* a < b and a > b of float64, b finite: every comparison with NaN is false.
FloatLess(a, b) ==
    CASE a.kind = "nan" -> FALSE
      [] a.kind = "inf" -> a.n < 0
      [] OTHER -> a.n * b.d < b.n * a.d

FloatGreater(a, b) ==
    CASE a.kind = "nan" -> FALSE
      [] a.kind = "inf" -> a.n > 0
      [] OTHER -> a.n * b.d > b.n * a.d

Lower(c) ==
    CASE c = "N" -> "n"
      [] c = "A" -> "a"
      [] c = "I" -> "i"
      [] c = "F" -> "f"
      [] OTHER -> c

LowerAll(s) == [i \in 1..Len(s) |-> Lower(s[i])]

RECURSIVE Pow10(_)
Pow10(k) == IF k = 0 THEN 1 ELSE 10 * Pow10(k - 1)

DotAt(s) == IF \E i \in 1..Len(s) : s[i] = "."
            THEN CHOOSE i \in 1..Len(s) : s[i] = "." /\ \A j \in 1..(i - 1) : s[j] # "."
            ELSE 0

\* strconv.ParseFloat(s, 64) on the decimal syntax without exponent, and on
\* the special values: "nan" takes no sign, "inf" takes one; letters are
\* matched without regard to case.
ParseFloat(s) ==
    LET l == LowerAll(s)
        u == Unsigned(s)
        neg == HasSign(s) /\ s[1] = "-"
        dot == DotAt(u)
        ip == IF dot = 0 THEN u ELSE SubSeq(u, 1, dot - 1)
        fp == IF dot = 0 THEN <<>> ELSE SubSeq(u, dot + 1, Len(u))
        m == DecVal(ip \o fp)
    IN
    IF l = <<"n", "a", "n">> THEN [ok |-> TRUE, val |-> NaN]
    ELSE IF LowerAll(u) = <<"i", "n", "f">>
    THEN [ok |-> TRUE, val |-> Inf(IF neg THEN -1 ELSE 1)]
    ELSE IF ip \o fp = <<>> \/ ~AllDigits(ip \o fp)
    THEN [ok |-> FALSE, val |-> Num(0, 1)]
    ELSE [ok |-> TRUE, val |-> Num(IF neg THEN 0 - m ELSE m, Pow10(Len(fp)))]

----------------------------------------------------------------------------
(* parseFormInt, parseFormFloat.                                           *)

parseFormInt(field, min, max) ==
    LET r == Atoi(field) IN
    IF ~r.ok THEN [val |-> 0, err |-> "invalid integer"]
    ELSE IF r.val < min \/ r.val > max
    THEN [val |-> 0, err |-> "value out of range"]
    ELSE [val |-> r.val, err |-> "nil"]

parseFormFloat(field, min, max) ==
    LET r == ParseFloat(field) IN
    IF ~r.ok THEN [val |-> Num(0, 1), err |-> "invalid float"]
    ELSE IF FloatLess(r.val, Num(min, 1)) \/ FloatGreater(r.val, Num(max, 1))
    THEN [val |-> Num(0, 1), err |-> "value out of range"]
    ELSE [val |-> r.val, err |-> "nil"]

----------------------------------------------------------------------------
(* encoding/json.                                                          *)

NoPayload == [none |-> TRUE]
NoData == [none |-> TRUE]
NoResp == [err |-> FALSE, code |-> 0, readable |-> FALSE, text |-> "none"]
NoResult == [none |-> TRUE]
NoFloat == Num(0, 1)

\* Strings are coerced to valid UTF-8: each invalid byte becomes U+FFFD.
ToValidUTF8(s) ==
    [i \in 1..Len(s) |-> IF s[i] \in InvalidBytes THEN "uFFFD" ELSE s[i]]

\* json.Marshal of the payload map: NaN and the infinities are unsupported
\* values; integers and finite floats are written so that they read back
\* as the same value; the result is the JSON object, key by key.
jsonMarshal(p) ==
    IF p.guidance.kind # "num"
    THEN [err |-> TRUE, data |-> NoData]
    ELSE [err |-> FALSE,
          data |-> [k \in DOMAIN p |->
                      IF k = "prompt" THEN ToValidUTF8(p[k]) ELSE p[k]]]

\* json.Unmarshal of the body into map[string]any.
jsonUnmarshal(text) ==
    CASE text = "json_image" -> [err |-> FALSE, val |-> [image |-> "data:base64"]]
      [] text = "json_no_image" -> [err |-> FALSE, val |-> [error |-> "busy"]]
      [] OTHER -> [err |-> TRUE, val |-> NoResult]

\* result["image"]: the zero value nil when the key is missing.
MapImage(m) == IF "image" \in DOMAIN m THEN m.image ELSE "nil"

----------------------------------------------------------------------------
(* echo.Context: c.String / c.Render write on the echo.Response. The first *)
(* write commits the status; a later one leaves the committed status and   *)
(* appends its bytes to the body.                                          *)

Commit(st, code) == IF st = 0 THEN code ELSE st

Write(code, msg, image) ==
    /\ writes' = Append(writes, [code |-> code, msg |-> msg, image |-> image])
    /\ status' = Commit(status, code)

cString(code, msg) == Write(code, msg, "none")

NoWrite == UNCHANGED <<status, writes>>

----------------------------------------------------------------------------
(* Server.generate.                                                        *)

\* A payload with width and height exchanged.
BuildPayloadSwapped(p, w, h, n, g) ==
    [prompt |-> p, width |-> h, height |-> w, steps |-> n, guidance |-> g]

\* lines 126-132
BuildPayload(p, w, h, n, g) ==
    [prompt |-> p, width |-> w, height |-> h, steps |-> n, guidance |-> g]

\* line 140: payload["seed"] = seed
WithSeed(p, seed) ==
    [k \in DOMAIN p \cup {"seed"} |-> IF k = "seed" THEN seed ELSE p[k]]

\* line 152: the URL of the outbound call
CallURL(backend) == PostURL

\* A return that runs no deferred call.
RunNothing(d, b) == b

\* The deferred calls run when generate returns: resp.Body.Close() closes an
\* open body, and would dereference nil had http.Post returned no response.
RunDeferred(d, b) ==
    IF d = <<>> THEN b
    ELSE IF b = "none" THEN "nil dereference"
    ELSE "closed"

\* A request's locals before generate has assigned them.
Fresh ==
    /\ width = 0 /\ height = 0 /\ numSteps = 0 /\ guidanceScale = NoFloat
    /\ parsed = <<>>
    /\ payload = NoPayload /\ jsonData = NoData
    /\ calls = <<>> /\ resp = NoResp /\ bodyState = "none"
    /\ result = NoResult
    /\ status = 0 /\ writes = <<>> /\ deferred = <<>> /\ retErr = "nil"

NoForm ==
    [prompt |-> <<>>, width |-> <<>>, height |-> <<>>,
     num_steps |-> <<>>, guidance_scale |-> <<>>, seed |-> <<>>]

\* lines 97-102: Echo dispatches POST / to generate, which reads the form.
Receive(f) ==
    /\ pc = "idle"
    /\ form' = f
    /\ pc' = "prompt"
    /\ UNCHANGED <<Backend, width, height, numSteps, guidanceScale, parsed,
                   payload, jsonData, calls, resp, bodyState, result, status,
                   writes, deferred, retErr, runVars>>

CheckPrompt ==
    /\ pc = "prompt"
    /\ parsed' = Append(parsed, "prompt")
    /\ IF form.prompt = <<>>
       THEN cString(StatusBadRequest, "Prompt is required") /\ pc' = "return"
       ELSE NoWrite /\ pc' = "width"
    /\ UNCHANGED <<Backend, form, width, height, numSteps, guidanceScale,
                   payload, jsonData, calls, resp, bodyState, result,
                   deferred, retErr, runVars>>

ParseWidth ==
    /\ pc = "width"
    /\ parsed' = Append(parsed, "width")
    /\ LET r == parseFormInt(form.width, MinDim, MaxDim) IN
       IF r.err # "nil"
       THEN cString(StatusBadRequest, "Width is invalid")
            /\ pc' = "return" /\ UNCHANGED width
       ELSE NoWrite /\ pc' = "height" /\ width' = r.val
    /\ UNCHANGED <<Backend, form, height, numSteps, guidanceScale,
                   payload, jsonData, calls, resp, bodyState, result,
                   deferred, retErr, runVars>>

ParseHeight ==
    /\ pc = "height"
    /\ parsed' = Append(parsed, "height")
    /\ LET r == parseFormInt(form.height, MinDim, MaxDim) IN
       IF r.err # "nil"
       THEN cString(StatusBadRequest, "Height is invalid")
            /\ pc' = "return" /\ UNCHANGED height
       ELSE NoWrite /\ pc' = "num_steps" /\ height' = r.val
    /\ UNCHANGED <<Backend, form, width, numSteps, guidanceScale,
                   payload, jsonData, calls, resp, bodyState, result,
                   deferred, retErr, runVars>>

ParseNumSteps ==
    /\ pc = "num_steps"
    /\ parsed' = Append(parsed, "num_steps")
    /\ LET r == parseFormInt(form.num_steps, MinSteps, MaxSteps) IN
       IF r.err # "nil"
       THEN cString(StatusBadRequest, "Number of steps is invalid")
            /\ pc' = "return" /\ UNCHANGED numSteps
       ELSE NoWrite /\ pc' = "guidance_scale" /\ numSteps' = r.val
    /\ UNCHANGED <<Backend, form, width, height, guidanceScale,
                   payload, jsonData, calls, resp, bodyState, result,
                   deferred, retErr, runVars>>

ParseGuidanceScale ==
    /\ pc = "guidance_scale"
    /\ parsed' = Append(parsed, "guidance_scale")
    /\ LET r == parseFormFloat(form.guidance_scale, MinGuidance, MaxGuidance) IN
       IF r.err # "nil"
       THEN cString(StatusBadRequest, "Guidance scale is invalid")
            /\ pc' = "return" /\ UNCHANGED guidanceScale
       ELSE NoWrite /\ pc' = "payload" /\ guidanceScale' = r.val
    /\ UNCHANGED <<Backend, form, width, height, numSteps,
                   payload, jsonData, calls, resp, bodyState, result,
                   deferred, retErr, runVars>>

PreparePayload ==
    /\ pc = "payload"
    /\ payload' = BuildPayload(form.prompt, width, height, numSteps, guidanceScale)
    /\ pc' = "seed"
    /\ UNCHANGED <<Backend, form, width, height, numSteps, guidanceScale,
                   parsed, jsonData, calls, resp, bodyState, result, status,
                   writes, deferred, retErr, runVars>>

\* lines 135-141: a seed that does not parse writes the 400 and the handler
\* goes on (there is no return), with seed the zero value parseFormInt gave.
HandleSeed ==
    /\ pc = "seed"
    /\ IF form.seed # <<>>
       THEN LET r == parseFormInt(form.seed, MinInt, MaxInt) IN
            /\ parsed' = Append(parsed, "seed")
            /\ IF r.err # "nil"
               THEN cString(StatusBadRequest, "Seed is invalid")
               ELSE NoWrite
            /\ payload' = WithSeed(payload, r.val)
       ELSE NoWrite /\ UNCHANGED <<parsed, payload>>
    /\ pc' = "marshal"
    /\ UNCHANGED <<Backend, form, width, height, numSteps, guidanceScale,
                   jsonData, calls, resp, bodyState, result,
                   deferred, retErr, runVars>>

Marshal ==
    /\ pc = "marshal"
    /\ LET r == jsonMarshal(payload) IN
       IF r.err
       THEN cString(StatusInternalServerError, "Failed to encode JSON")
            /\ pc' = "return" /\ UNCHANGED jsonData
       ELSE NoWrite /\ pc' = "post" /\ jsonData' = r.data
    /\ UNCHANGED <<Backend, form, width, height, numSteps, guidanceScale,
                   parsed, payload, calls, resp, bodyState, result,
                   deferred, retErr, runVars>>

\* lines 152-156: the one http.Post, its error check and the defer.
Post(a) ==
    /\ pc = "post"
    /\ calls' = Append(calls, [url |-> CallURL(Backend), body |-> jsonData])
    /\ resp' = a
    /\ IF a.err
       THEN cString(StatusInternalServerError, "Failed to call Flue server")
            /\ pc' = "return" /\ UNCHANGED <<bodyState, deferred>>
       ELSE NoWrite /\ pc' = "read" /\ bodyState' = "open"
            /\ deferred' = <<"resp.Body.Close">>
    /\ UNCHANGED <<Backend, form, width, height, numSteps, guidanceScale,
                   parsed, payload, jsonData, result, retErr, runVars>>

ReadBody ==
    /\ pc = "read"
    /\ IF ~resp.readable
       THEN cString(StatusInternalServerError,
                    "Failed to read response from Flue server")
            /\ pc' = "return"
       ELSE NoWrite /\ pc' = "unmarshal"
    /\ UNCHANGED <<Backend, form, width, height, numSteps, guidanceScale,
                   parsed, payload, jsonData, calls, resp, bodyState, result,
                   deferred, retErr, runVars>>

Unmarshal ==
    /\ pc = "unmarshal"
    /\ LET r == jsonUnmarshal(resp.text) IN
       IF r.err
       THEN cString(StatusInternalServerError, "Failed to parse JSON response")
            /\ pc' = "return" /\ UNCHANGED result
       ELSE NoWrite /\ pc' = "render" /\ result' = r.val
    /\ UNCHANGED <<Backend, form, width, height, numSteps, guidanceScale,
                   parsed, payload, jsonData, calls, resp, bodyState,
                   deferred, retErr, runVars>>

\* lines 174-180: c.Render executes the template into a buffer; if that
\* fails it returns the error and writes nothing, otherwise it writes the
\* fragment with status 200.
Render(ok) ==
    /\ pc = "render"
    /\ IF ok
       THEN Write(StatusOK, "result.html", MapImage(result)) /\ UNCHANGED retErr
       ELSE NoWrite /\ retErr' = "template error"
    /\ pc' = "return"
    /\ UNCHANGED <<Backend, form, width, height, numSteps, guidanceScale,
                   parsed, payload, jsonData, calls, resp, bodyState, result,
                   deferred, runVars>>

\* generate returns: the deferred calls run, and Echo's error handler
\* answers a returned error with a 500 unless the response is committed.
Return ==
    /\ pc = "return"
    /\ bodyState' = RunDeferred(deferred, bodyState)
    /\ IF retErr # "nil" /\ status = 0
       THEN cString(StatusInternalServerError, "Internal Server Error")
       ELSE NoWrite
    /\ pc' = "returned"
    /\ UNCHANGED <<Backend, form, width, height, numSteps, guidanceScale,
                   parsed, payload, jsonData, calls, resp, result,
                   deferred, retErr, runVars>>

\* The request is over: its goroutine ends and nothing of it is kept.
Finish ==
    /\ pc = "returned"
    /\ pc' = "idle"
    /\ form' = NoForm
    /\ width' = 0 /\ height' = 0 /\ numSteps' = 0 /\ guidanceScale' = NoFloat
    /\ parsed' = <<>>
    /\ payload' = NoPayload /\ jsonData' = NoData
    /\ calls' = <<>> /\ resp' = NoResp /\ bodyState' = "none"
    /\ result' = NoResult
    /\ status' = 0 /\ writes' = <<>> /\ deferred' = <<>> /\ retErr' = "nil"
    /\ UNCHANGED <<Backend, runVars>>

Next ==
    \/ \E f \in Forms : Receive(f)
    \/ CheckPrompt
    \/ ParseWidth
    \/ ParseHeight
    \/ ParseNumSteps
    \/ ParseGuidanceScale
    \/ PreparePayload
    \/ HandleSeed
    \/ Marshal
    \/ \E a \in BackendAnswers : Post(a)
    \/ ReadBody
    \/ Unmarshal
    \/ \E ok \in BOOLEAN : Render(ok)
    \/ Return
    \/ Finish

Init ==
    /\ Backend \in Backends
    /\ pc = "idle"
    /\ form = NoForm
    /\ Fresh
    /\ runPc = "init" /\ listener = "none" /\ ctxDone = FALSE
    /\ inflight = 0 /\ elapsed = 0 /\ runErr = "nil"

Spec == Init /\ [][Next]_vars

----------------------------------------------------------------------------
(* Server.Run and the goroutine it starts.                                 *)

\* A listener goroutine that logs the failure and does not call stop().
AfterStartNoStop(err, done) == done

\* What the listener goroutine does when Echo.Start returns err (lines
\* 53-56): stop() cancels the context unless err is nil or ErrServerClosed.
AfterStart(err, done) ==
    IF err # "nil" /\ err # "ErrServerClosed" THEN TRUE ELSE done

\* Lines 39-57: middleware, renderer (template.Must panics when ParseGlob
\* fails), routes, and the go statement.
RunSetup(templatesOk) ==
    /\ runPc = "init"
    /\ IF templatesOk
       THEN runPc' = "waiting" /\ listener' = "starting"
       ELSE runPc' = "panicked" /\ UNCHANGED listener
    /\ UNCHANGED <<Backend, handlerVars, ctxDone, inflight, elapsed, runErr>>

\* SIGINT or SIGTERM reaches signal.NotifyContext while the process lives.
Signal ==
    /\ runPc \notin {"panicked", "returned"}
    /\ ~ctxDone
    /\ ctxDone' = TRUE
    /\ UNCHANGED <<Backend, handlerVars, runPc, listener, inflight, elapsed, runErr>>

\* Echo.Start returns at once: the listen fails, or the server was already
\* shut down (ErrServerClosed).
StartReturns(err) ==
    /\ listener = "starting"
    /\ err = "ErrServerClosed" => runPc \in {"shutdown", "returned"}
    /\ listener' = IF err = "ErrServerClosed" THEN "closed" ELSE "failed"
    /\ ctxDone' = AfterStart(err, ctxDone)
    /\ UNCHANGED <<Backend, handlerVars, runPc, inflight, elapsed, runErr>>

\* Echo.Start is listening and serving.
StartServes ==
    /\ listener = "starting"
    /\ runPc = "waiting"
    /\ listener' = "serving"
    /\ UNCHANGED <<Backend, handlerVars, runPc, ctxDone, inflight, elapsed, runErr>>

\* Serve returns: ErrServerClosed once Shutdown was called, or an accept
\* error at any time.
ServeReturns(err) ==
    /\ listener = "serving"
    /\ err = "ErrServerClosed" => runPc \in {"shutdown", "returned"}
    /\ listener' = IF err = "ErrServerClosed" THEN "closed" ELSE "failed"
    /\ ctxDone' = AfterStart(err, ctxDone)
    /\ UNCHANGED <<Backend, handlerVars, runPc, inflight, elapsed, runErr>>

\* A request is accepted while the server serves and is not shutting down.
RequestBegins ==
    /\ listener = "serving"
    /\ runPc = "waiting"
    /\ inflight < MaxInflight
    /\ inflight' = inflight + 1
    /\ UNCHANGED <<Backend, handlerVars, runPc, listener, ctxDone, elapsed, runErr>>

RequestEnds ==
    /\ inflight > 0
    /\ runPc # "returned"
    /\ inflight' = inflight - 1
    /\ UNCHANGED <<Backend, handlerVars, runPc, listener, ctxDone, elapsed, runErr>>

\* Lines 60-64: <-ctx.Done() returns, and Echo.Shutdown is called with a
\* context that expires after the grace period.
BeginShutdown ==
    /\ runPc = "waiting"
    /\ ctxDone
    /\ runPc' = "shutdown"
    /\ elapsed' = 0
    /\ UNCHANGED <<Backend, handlerVars, listener, ctxDone, inflight, runErr>>

\* A second of the grace period passes.
Tick ==
    /\ runPc = "shutdown"
    /\ elapsed < GracePeriod
    /\ elapsed' = elapsed + 1
    /\ UNCHANGED <<Backend, handlerVars, runPc, listener, ctxDone, inflight, runErr>>

\* Lines 64-69: Shutdown returns once no request is in flight (with the
\* error of closing the listeners, if any), and Run returns that.
ShutdownDrained(err) ==
    /\ runPc = "shutdown"
    /\ inflight = 0
    /\ err \in {"nil", "close error"}
    /\ runErr' = err
    /\ runPc' = "returned"
    /\ UNCHANGED <<Backend, handlerVars, listener, ctxDone, inflight, elapsed>>

\* Shutdown's context expires with requests still in flight.
ShutdownExpired ==
    /\ runPc = "shutdown"
    /\ inflight > 0
    /\ elapsed = GracePeriod
    /\ runErr' = "context deadline exceeded"
    /\ runPc' = "returned"
    /\ UNCHANGED <<Backend, handlerVars, listener, ctxDone, inflight, elapsed>>

StartErrors == {"listen error", "ErrServerClosed"}

ServeErrors == {"accept error", "ErrServerClosed"}

RunNext ==
    \/ \E ok \in BOOLEAN : RunSetup(ok)
    \/ Signal
    \/ \E err \in StartErrors : StartReturns(err)
    \/ StartServes
    \/ \E err \in ServeErrors : ServeReturns(err)
    \/ RequestBegins
    \/ RequestEnds
    \/ BeginShutdown
    \/ Tick
    \/ \E err \in {"nil", "close error"} : ShutdownDrained(err)
    \/ ShutdownExpired

RunSpec == Init /\ [][RunNext]_vars

\* The Go scheduler runs every runnable goroutine, Echo.Start returns or
\* serves, and time passes; signals and requests are the environment's.
RunFairness ==
    /\ WF_vars(\E ok \in BOOLEAN : RunSetup(ok))
    /\ WF_vars(StartServes \/ \E err \in StartErrors : StartReturns(err))
    /\ WF_vars(BeginShutdown)
    /\ WF_vars(Tick)
    /\ WF_vars(\E err \in {"nil", "close error"} : ShutdownDrained(err))
    /\ WF_vars(ShutdownExpired)

FairRunSpec == RunSpec /\ RunFairness

----------------------------------------------------------------------------
(* The documented validity of a submission (spec section 4.1): what each   *)
(* field's text denotes, against its declared range.                       *)

DenotesInt(s, lo, hi) ==
    LET r == Atoi(s) IN r.ok /\ lo <= r.val /\ r.val <= hi

DenotesFloat(s, lo, hi) ==
    LET r == ParseFloat(s) IN
    /\ r.ok
    /\ r.val.kind = "num"
    /\ lo * r.val.d <= r.val.n
    /\ r.val.n <= hi * r.val.d

Order == <<"prompt", "width", "height", "num_steps", "guidance_scale", "seed">>

FieldValid(f, name) ==
    CASE name = "prompt" -> f.prompt # <<>>
      [] name = "width" -> DenotesInt(f.width, 64, 1024)
      [] name = "height" -> DenotesInt(f.height, 64, 1024)
      [] name = "num_steps" -> DenotesInt(f.num_steps, 1, 10)
      [] name = "guidance_scale" -> DenotesFloat(f.guidance_scale, 0, 10)
      [] name = "seed" -> f.seed = <<>> \/ Atoi(f.seed).ok

RequiredValid(f) == \A i \in 1..5 : FieldValid(f, Order[i])

AllValid(f) == \A i \in 1..6 : FieldValid(f, Order[i])

\* Index in Order of the earliest invalid field, 0 when all are valid.
FirstInvalid(f) ==
    IF AllValid(f) THEN 0
    ELSE CHOOSE i \in 1..6 :
           /\ ~FieldValid(f, Order[i])
           /\ \A j \in 1..(i - 1) : FieldValid(f, Order[j])

FieldError ==
    <<"Prompt is required", "Width is invalid", "Height is invalid",
      "Number of steps is invalid", "Guidance scale is invalid",
      "Seed is invalid">>

GenerationsPath == "/v1/images/generations"

----------------------------------------------------------------------------
(* Claims.                                                                 *)

\* C1: a submission whose prompt is empty, or whose width, height, num_steps
\* or guidance_scale is unparseable or outside its declared range, never
\* causes an outbound call and is answered with status 400.
C1_InvalidFieldIs400 ==
    ~RequiredValid(form) /\ pc # "idle" =>
        /\ calls = <<>>
        /\ pc = "returned" => status = 400

\* C2: a seed that is present and not an integer, every other field being
\* valid, is a hard 400: no outbound call is issued (so no payload with a
\* seed is sent) and the request ends with status 400.
C2_InvalidSeedIsHard400 ==
    RequiredValid(form) /\ ~FieldValid(form, "seed") =>
        /\ calls = <<>>
        /\ pc = "returned" => status = 400

\* C3: when generate has returned, exactly one response has been written for
\* the request: not zero, and no second write after the first.
C3_ExactlyOneResponse ==
    pc = "returned" => Len(writes) = 1

\* C4 as stated: a submission valid in every field issues exactly one
\* outbound call (none before the handler reaches it, never a second), and
\* the call's JSON body carries the parsed width, height, steps and guidance
\* and the submitted prompt unchanged.
C4_OneCallSubmittedPrompt ==
    AllValid(form) =>
        /\ Len(calls) <= 1
        /\ pc = "returned" =>
            /\ Len(calls) = 1
            /\ calls[1].body.width = Atoi(form.width).val
            /\ calls[1].body.height = Atoi(form.height).val
            /\ calls[1].body.steps = Atoi(form.num_steps).val
            /\ calls[1].body.guidance = ParseFloat(form.guidance_scale).val
            /\ calls[1].body.prompt = form.prompt

\* C4 amended: as C4, except that the prompt of the JSON body is the
\* submitted prompt with every byte that is not valid UTF-8 replaced by
\* U+FFFD; it is the submitted prompt itself when that is valid UTF-8.
C4_OneCallExactPayload ==
    AllValid(form) =>
        /\ Len(calls) <= 1
        /\ pc = "returned" =>
            /\ Len(calls) = 1
            /\ calls[1].body.width = Atoi(form.width).val
            /\ calls[1].body.height = Atoi(form.height).val
            /\ calls[1].body.steps = Atoi(form.num_steps).val
            /\ calls[1].body.guidance = ParseFloat(form.guidance_scale).val
            /\ Len(calls[1].body.prompt) = Len(form.prompt)
            /\ \A i \in 1..Len(form.prompt) :
                 calls[1].body.prompt[i] =
                   IF form.prompt[i] \in InvalidBytes THEN "uFFFD"
                   ELSE form.prompt[i]

\* C4 witness: a valid submission with a seed whose one call failed, and the
\* handler returned without a second call.
C4_Witness ==
    /\ pc = "returned"
    /\ AllValid(form)
    /\ form.seed = <<"4", "2">>
    /\ form.guidance_scale = <<"7", ".", "5">>
    /\ resp.err
    /\ Len(calls) = 1

\* C5: every JSON payload the handler builds has the key seed exactly when
\* the form's seed is non-empty, and then its value is the integer the form
\* supplied.
C5_SeedKeyIffSupplied ==
    jsonData # NoData =>
        /\ ("seed" \in DOMAIN jsonData) <=> (form.seed # <<>>)
        /\ "seed" \in DOMAIN jsonData =>
             /\ Atoi(form.seed).ok
             /\ jsonData.seed = Atoi(form.seed).val

\* C6: when the call fails, the body cannot be read, the backend's status is
\* not 2xx or the body is not JSON, the handler answers 500; it answers 200
\* only for a 2xx response whose JSON carries the image field.
C6_BackendFailureIs500 ==
    pc = "returned" /\ calls # <<>> /\ AllValid(form) =>
        /\ (resp.err \/ ~resp.readable \/ resp.code \notin 200..299
              \/ resp.text = "not_json") => status = 500
        /\ status = 200 =>
             /\ ~resp.err
             /\ resp.code \in 200..299
             /\ resp.text = "json_image"

\* C7: every outbound call is addressed to the configured backend,
\* <Backend>/v1/images/generations.
C7_CallGoesToConfiguredBackend ==
    \A i \in 1..Len(calls) : calls[i].url = <<Backend, GenerationsPath>>

\* C8: fields are examined in the order prompt, width, height, num_steps,
\* guidance_scale, seed; no field after the earliest invalid one is
\* examined, and once that one has been examined the handler has stopped
\* with that field's 400 as the only thing written.
C8_FirstFailureStops ==
    /\ \A i \in 1..Len(parsed) : parsed[i] = Order[i]
    /\ LET k == FirstInvalid(form) IN
       k > 0 /\ pc # "idle" =>
         /\ Len(parsed) <= k
         /\ Len(parsed) = k =>
              /\ pc \in {"return", "returned"}
              /\ writes = <<[code |-> 400, msg |-> FieldError[k], image |-> "none"]>>

\* C9: a response body that http.Post returned is closed when the handler
\* has returned, whichever way it left; a failed call leaves no body, and
\* none is dereferenced.
C9_BodyClosedOnReturn ==
    /\ bodyState # "nil dereference"
    /\ resp.err => bodyState = "none"
    /\ pc = "returned" /\ calls # <<>> /\ ~resp.err => bodyState = "closed"

\* C9 witness: the body could not be read, the handler answered and
\* returned, and the body is closed.
C9_Witness ==
    /\ pc = "returned"
    /\ calls # <<>>
    /\ ~resp.err
    /\ ~resp.readable
    /\ bodyState = "closed"

====
